---- MODULE Spec2Model ----
(***************************************************************************)
(* State-machine model of src/server.js (the one-file "mini LinkedIn"      *)
(* backend): the three Mongoose collections, the auth middleware and the   *)
(* seven route handlers.  Every handler is cut at its awaits: a request    *)
(* slot's pc names the await the handler is suspended at, and one action   *)
(* resolves that await (the store operation takes effect at that moment)   *)
(* and runs the continuation up to the next await or to the response.      *)
(* Store operations are modelled as resolving; the failures of a handler   *)
(* that the model covers are the ones its inputs and the stored data can   *)
(* cause (a thrown jwt.verify, a duplicate-key insert, a missing password, *)
(* a null req.user).                                                       *)
(***************************************************************************)
EXTENDS Integers, Sequences, FiniteSets, TLC

(***************************************************************************)
(* Bounds of the model.                                                    *)
(***************************************************************************)
MaxReq == 2        \* request slots: handlers that can be in flight together
MaxConnReqs == 2   \* ConnectionRequest documents the requests may create
MaxGateReq == 1    \* slots in use where all five protected routes are run

Req == 1..MaxReq

(***************************************************************************)
(* Inputs.                                                                 *)
(***************************************************************************)
Undefined == "undefined"
Names == {<<"a", "b">>, <<"A", "c">>}
Queries == {<<>>, <<"a">>, <<".", "c">>}
Emails == {"alice@x.com", "bob@x.com"}
Passwords == {"pw1", "pw2"}
JobIds == {"j1"}

\* The unique index on email admits one user per email, and _id counts the
\* stored users: these are the ids a user can have.
UserIds == 1..Cardinality(Emails)

JWT_SECRET == "process.env.JWT_SECRET"
OtherSecret == "another secret"

\* Characters of an Authorization header: a space, a plain word, or a token.
SP == [ch |-> " "]
W(s) == [ch |-> s]

(***************************************************************************)
(* jsonwebtoken.  A token is its payload and the key its signature was     *)
(* made with; verify accepts exactly the tokens made with the given key.   *)
(***************************************************************************)
sign(payload, secret) == [payload |-> payload, key |-> secret]

IsJwt(word) == Len(word) = 1 /\ DOMAIN word[1] = {"payload", "key"}

\* A verify that does not compare the key the signature was made with.
verifiesAnyKey(token, secret) ==
    /\ token # <<W(Undefined)>>
    /\ IsJwt(token)

verifies(token, secret) ==
    /\ token # <<W(Undefined)>>
    /\ IsJwt(token)
    /\ token[1].key = secret

verify(token, secret) == token[1].payload

(***************************************************************************)
(* bcryptjs.                                                               *)
(***************************************************************************)
hash(password) == "$2a$10$" \o password

compareSync(password, hashed) == hashed = hash(password)

(***************************************************************************)
(* String.prototype.split(" ") on a header and the [1] of its result.      *)
(***************************************************************************)
RECURSIVE split(_)
split(s) ==
    IF \A i \in 1..Len(s) : s[i] # SP
    THEN <<s>>
    ELSE LET k == CHOOSE i \in 1..Len(s) :
                      s[i] = SP /\ \A j \in 1..(i - 1) : s[j] # SP
         IN  <<SubSeq(s, 1, k - 1)>> \o split(SubSeq(s, k + 1, Len(s)))

At(arr, i) == IF i + 1 <= Len(arr) THEN arr[i + 1] ELSE <<W(Undefined)>>

NoHeader == <<W(Undefined)>>

(***************************************************************************)
(* State.  The three collections hold their documents in insertion order;  *)
(* a document's _id is its position, so no two documents of a collection   *)
(* share one.  Slot r holds one request: req[r] is what the client sent,   *)
(* reqUser[r] is req.user, res[r] the response sent (NoRes while none is), *)
(* nextCalls[r] the number of times auth has invoked next().               *)
(***************************************************************************)
VARIABLES User, ConnectionRequest, Job, pc, req, reqUser, res, nextCalls

vars == <<User, ConnectionRequest, Job, pc, req, reqUser, res, nextCalls>>

Null == [null |-> TRUE]
NoReq == [route |-> "none"]
NoRes == [status |-> 0]

Range(s) == {s[i] : i \in 1..Len(s)}

json(status, body) == [status |-> status, body |-> body]
message(m) == [message |-> m]

\* A client keeps the tokens it was given: the token of every stored user
\* can be presented.  DeletedUserToken was issued by this process to a user
\* whose document is no longer in the store.
DeletedUserId == Cardinality(Emails) + 1

DeletedUserToken == <<sign([id |-> DeletedUserId], JWT_SECRET)>>

UserTokens == {<<sign([id |-> u._id], JWT_SECRET)>> : u \in Range(User)}

Bearer(token) == <<W("Bearer"), SP>> \o token

UserHeaders == {Bearer(t) : t \in UserTokens}

Headers ==
    {NoHeader, <<W("Bearer")>>, Bearer(<<W("abc")>>),
     Bearer(<<sign([id |-> 1], OtherSecret)>>), Bearer(DeletedUserToken)}
        \cup UserHeaders

(***************************************************************************)
(* Mongoose queries.                                                       *)
(***************************************************************************)
First(docs, P(_)) ==
    IF \E i \in 1..Len(docs) : P(docs[i])
    THEN docs[CHOOSE i \in 1..Len(docs) :
                  P(docs[i]) /\ \A j \in 1..(i - 1) : ~P(docs[j])]
    ELSE Null

\* A lookup that ignores the identifier.
findByIdAny(docs, id) == IF docs = <<>> THEN Null ELSE docs[1]

findById(docs, id) == LET P(d) == d._id = id IN First(docs, P)

findOneByEmail(docs, email) == LET P(d) == d.email = email IN First(docs, P)

\* A pre-check that also matches the request of the opposite direction.
findOneEitherDirection(docs, sender, receiver) ==
    LET P(d) == \/ d.sender = sender /\ d.receiver = receiver
                \/ d.sender = receiver /\ d.receiver = sender
    IN  First(docs, P)

findOneBySenderReceiver(docs, sender, receiver) ==
    LET P(d) == d.sender = sender /\ d.receiver = receiver IN First(docs, P)

\* .select("-password")
select(doc) ==
    IF doc = Null THEN Null
    ELSE [f \in DOMAIN doc \ {"password"} |-> doc[f]]

\* A collection without the unique index.
NoUniqueIndex(docs, email) == FALSE

\* The unique index on User.email: an insert of a stored email is refused.
DuplicateKey(docs, email) == \E i \in 1..Len(docs) : docs[i].email = email

create(docs, fields) == fields @@ [_id |-> Len(docs) + 1]

\* .populate("company", "name")
populate(job) ==
    IF job = Null THEN Null
    ELSE LET company == findById(User, job.company)
         IN  [job EXCEPT !.company =
                  IF company = Null THEN Null
                  ELSE [_id |-> company._id, name |-> company.name]]

Map(docs, F(_)) == [i \in 1..Len(docs) |-> F(docs[i])]

\* No route creates a Job: the collection holds what was stored beforehand.
SeededJobs == <<[_id |-> "j1", company |-> 1, applicants |-> {}]>>

Init ==
    /\ User = <<>>
    /\ ConnectionRequest = <<>>
    /\ Job = SeededJobs
    /\ pc = [r \in Req |-> "idle"]
    /\ req = [r \in Req |-> NoReq]
    /\ reqUser = [r \in Req |-> Null]
    /\ res = [r \in Req |-> NoRes]
    /\ nextCalls = [r \in Req |-> 0]

\* A slot takes a new request when it holds none or its request is over.
Free(r) == pc[r] \in {"idle", "done", "threw"}

InFlight(route) == Cardinality({r \in Req : ~Free(r) /\ req[r].route = route})

Accept(r, request) ==
    /\ Free(r)
    /\ req' = [req EXCEPT ![r] = request]
    /\ reqUser' = [reqUser EXCEPT ![r] = Null]

Respond(r, response) ==
    /\ res' = [res EXCEPT ![r] = response]
    /\ pc' = [pc EXCEPT ![r] = "done"]

Suspend(r, at) ==
    /\ res' = [res EXCEPT ![r] = IF Free(r) THEN NoRes ELSE @]
    /\ pc' = [pc EXCEPT ![r] = at]

\* An exception no handler catches: the request gets no response.
Throw(r) ==
    /\ res' = [res EXCEPT ![r] = IF Free(r) THEN NoRes ELSE @]
    /\ pc' = [pc EXCEPT ![r] = "threw"]

(***************************************************************************)
(* auth(req, res, next), up to the lookup it starts.                       *)
(***************************************************************************)
\* An auth without the check of line 65.
authNoHeaderCheck(r, header) ==
    /\ nextCalls' = [nextCalls EXCEPT ![r] = 0]
    /\ LET token == At(split(header), 1)
       IN  IF verifies(token, JWT_SECRET)
           THEN Suspend(r, "auth.findById")
           ELSE Respond(r, json(401, message("Invalid token")))

\* An auth that calls next() beside the lookup instead of in its callback.
authNextBesideLookup(r, header) ==
    IF header = NoHeader
    THEN /\ nextCalls' = [nextCalls EXCEPT ![r] = 0]
         /\ Respond(r, json(401, message("No token")))
    ELSE LET token == At(split(header), 1)
         IN  IF verifies(token, JWT_SECRET)
             THEN /\ nextCalls' = [nextCalls EXCEPT ![r] = 1]
                  /\ Suspend(r, "auth.findById")
             ELSE /\ nextCalls' = [nextCalls EXCEPT ![r] = 0]
                  /\ Respond(r, json(401, message("Invalid token")))

auth(r, header) ==
    /\ nextCalls' = [nextCalls EXCEPT ![r] = 0]
    /\ IF header = NoHeader
       THEN Respond(r, json(401, message("No token")))
       ELSE LET token == At(split(header), 1)
            IN  IF verifies(token, JWT_SECRET)
                THEN Suspend(r, "auth.findById")
                ELSE Respond(r, json(401, message("Invalid token")))

decoded(r) == verify(At(split(req[r].headers.authorization), 1), JWT_SECRET)

\* The then-callback of auth's lookup: req.user = user; next().  next() runs
\* the route handler up to its first await.
AuthThen(r) ==
    /\ pc[r] = "auth.findById"
    /\ LET user == select(findById(User, decoded(r).id))
       IN  /\ reqUser' = [reqUser EXCEPT ![r] = user]
           /\ nextCalls' = [nextCalls EXCEPT ![r] = @ + 1]
           /\ CASE req[r].route = "users/all" -> Suspend(r, "User.find")
                [] req[r].route = "connections/request" ->
                       IF user = Null THEN Throw(r)
                       ELSE Suspend(r, "ConnectionRequest.findOne")
                [] req[r].route = "jobs/all" -> Suspend(r, "Job.find")
                [] req[r].route = "jobs/:id" -> Suspend(r, "Job.findById")
                [] req[r].route = "jobs/apply" ->
                       IF user = Null THEN Throw(r)
                       ELSE Suspend(r, "Job.findByIdAndUpdate")
    /\ UNCHANGED <<User, ConnectionRequest, Job, req>>

(***************************************************************************)
(* POST /api/auth/user/register                                            *)
(***************************************************************************)
Register(r, name, email, password) ==
    /\ Accept(r, [route |-> "register",
                  body |-> [name |-> name, email |-> email, password |-> password]])
    /\ nextCalls' = [nextCalls EXCEPT ![r] = 0]
    /\ Suspend(r, "register.findOne")
    /\ UNCHANGED <<User, ConnectionRequest, Job>>

RegisterFindOne(r) ==
    /\ pc[r] = "register.findOne"
    /\ IF findOneByEmail(User, req[r].body.email) # Null
       THEN Respond(r, json(400, message("Email already exists")))
       ELSE Suspend(r, "bcrypt.hash")
    /\ UNCHANGED <<User, ConnectionRequest, Job, req, reqUser, nextCalls>>

\* bcrypt.hash rejects when it is given no password; the catch answers 500.
RegisterHash(r) ==
    /\ pc[r] = "bcrypt.hash"
    /\ IF req[r].body.password = Undefined
       THEN Respond(r, json(500, message("Server error")))
       ELSE Suspend(r, "User.create")
    /\ UNCHANGED <<User, ConnectionRequest, Job, req, reqUser, nextCalls>>

RegisterCreate(r) ==
    /\ pc[r] = "User.create"
    /\ LET body == req[r].body
           user == create(User, [name |-> body.name, email |-> body.email,
                                 password |-> hash(body.password)])
           token == sign([id |-> user._id], JWT_SECRET)
       IN  IF DuplicateKey(User, body.email)
           THEN /\ Respond(r, json(500, message("Server error")))
                /\ UNCHANGED User
           ELSE /\ User' = Append(User, user)
                /\ Respond(r, json(200, [token |-> token, user |-> user]))
    /\ UNCHANGED <<ConnectionRequest, Job, req, reqUser, nextCalls>>

(***************************************************************************)
(* POST /api/auth/user/login                                               *)
(***************************************************************************)
Login(r, email, password) ==
    /\ Accept(r, [route |-> "login",
                  body |-> [email |-> email, password |-> password]])
    /\ nextCalls' = [nextCalls EXCEPT ![r] = 0]
    /\ Suspend(r, "login.findOne")
    /\ UNCHANGED <<User, ConnectionRequest, Job>>

\* bcrypt.compareSync throws when it is given no password; nothing catches it.
LoginFindOne(r) ==
    /\ pc[r] = "login.findOne"
    /\ LET u == findOneByEmail(User, req[r].body.email)
           password == req[r].body.password
       IN  IF u = Null
           THEN Respond(r, json(400, message("Invalid email")))
           ELSE IF password = Undefined
           THEN Throw(r)
           ELSE IF ~compareSync(password, u.password)
           THEN Respond(r, json(400, message("Wrong password")))
           ELSE Respond(r, json(200, [token |-> sign([id |-> u._id], JWT_SECRET),
                                      user |-> u]))
    /\ UNCHANGED <<User, ConnectionRequest, Job, req, reqUser, nextCalls>>

(***************************************************************************)
(* GET /api/users/all                                                      *)
(***************************************************************************)
Lower(c) == IF c = "A" THEN "a" ELSE c

\* { $regex: q, $options: "i" }: q is a pattern, "." stands for any character.
regex(q, name) ==
    \E off \in 0..(Len(name) - Len(q)) :
        \A i \in 1..Len(q) : q[i] = "." \/ Lower(q[i]) = Lower(name[off + i])

RECURSIVE Filter(_, _)
Filter(docs, q) ==
    IF docs = <<>> THEN <<>>
    ELSE (IF regex(q, Head(docs).name) THEN <<Head(docs)>> ELSE <<>>)
             \o Filter(Tail(docs), q)

UsersAll(r, header, q) ==
    /\ Accept(r, [route |-> "users/all",
                  headers |-> [authorization |-> header], query |-> [q |-> q]])
    /\ auth(r, header)
    /\ UNCHANGED <<User, ConnectionRequest, Job>>

UserFind(r) ==
    /\ pc[r] = "User.find"
    /\ Respond(r, json(200, Filter(User, req[r].query.q)))
    /\ UNCHANGED <<User, ConnectionRequest, Job, req, reqUser, nextCalls>>

(***************************************************************************)
(* POST /api/connections/request/:id                                       *)
(***************************************************************************)
ConnectionsRequest(r, header, id) ==
    /\ Len(ConnectionRequest) + InFlight("connections/request") < MaxConnReqs
    /\ Accept(r, [route |-> "connections/request",
                  headers |-> [authorization |-> header], params |-> [id |-> id]])
    /\ auth(r, header)
    /\ UNCHANGED <<User, ConnectionRequest, Job>>

ConnectionRequestFindOne(r) ==
    /\ pc[r] = "ConnectionRequest.findOne"
    /\ LET sender == reqUser[r]._id
           receiver == req[r].params.id
           exists == findOneBySenderReceiver(ConnectionRequest, sender, receiver)
       IN  IF exists # Null
           THEN Respond(r, json(400, message("Already sent")))
           ELSE Suspend(r, "ConnectionRequest.create")
    /\ UNCHANGED <<User, ConnectionRequest, Job, req, reqUser, nextCalls>>

ConnectionRequestCreate(r) ==
    /\ pc[r] = "ConnectionRequest.create"
    /\ LET reqObj == create(ConnectionRequest,
                            [sender |-> reqUser[r]._id,
                             receiver |-> req[r].params.id,
                             status |-> "pending"])
       IN  /\ ConnectionRequest' = Append(ConnectionRequest, reqObj)
           /\ Respond(r, json(200, reqObj))
    /\ UNCHANGED <<User, Job, req, reqUser, nextCalls>>

(***************************************************************************)
(* GET /api/jobs/all, GET /api/jobs/:id, POST /api/jobs/apply/:id          *)
(***************************************************************************)
JobsAll(r, header) ==
    /\ Accept(r, [route |-> "jobs/all", headers |-> [authorization |-> header]])
    /\ auth(r, header)
    /\ UNCHANGED <<User, ConnectionRequest, Job>>

JobFind(r) ==
    /\ pc[r] = "Job.find"
    /\ Respond(r, json(200, Map(Job, populate)))
    /\ UNCHANGED <<User, ConnectionRequest, Job, req, reqUser, nextCalls>>

JobsById(r, header, id) ==
    /\ Accept(r, [route |-> "jobs/:id",
                  headers |-> [authorization |-> header], params |-> [id |-> id]])
    /\ auth(r, header)
    /\ UNCHANGED <<User, ConnectionRequest, Job>>

JobFindById(r) ==
    /\ pc[r] = "Job.findById"
    /\ Respond(r, json(200, populate(findById(Job, req[r].params.id))))
    /\ UNCHANGED <<User, ConnectionRequest, Job, req, reqUser, nextCalls>>

JobsApply(r, header, id) ==
    /\ Accept(r, [route |-> "jobs/apply",
                  headers |-> [authorization |-> header], params |-> [id |-> id]])
    /\ auth(r, header)
    /\ UNCHANGED <<User, ConnectionRequest, Job>>

\* { $addToSet: { applicants: req.user._id } } on the job with that _id.
addToSet(jobs, id, applicant) ==
    [i \in 1..Len(jobs) |->
        IF jobs[i]._id = id
        THEN [jobs[i] EXCEPT !.applicants = @ \cup {applicant}]
        ELSE jobs[i]]

JobFindByIdAndUpdate(r) ==
    /\ pc[r] = "Job.findByIdAndUpdate"
    /\ Job' = addToSet(Job, req[r].params.id, reqUser[r]._id)
    /\ Respond(r, json(200, message("Applied")))
    /\ UNCHANGED <<User, ConnectionRequest, req, reqUser, nextCalls>>

(***************************************************************************)
(* The server: any free slot takes any request, any suspended handler      *)
(* resumes.  The routes are grouped so that a specification can run a part *)
(* of the server for given clients c: the slots they use, the names,       *)
(* emails, passwords, queries and receiver ids they send, the headers they *)
(* present, and whether they wait for the handlers in flight.              *)
(***************************************************************************)
TokenResponse(r) ==
    /\ pc[r] = "done"
    /\ req[r].route \in {"register", "login"}
    /\ res[r].status = 200

\* The headers of the tokens that the responses in the slots carry.
IssuedHeaders == {Bearer(<<res[r].body.token>>) : r \in {x \in Req : TokenResponse(x)}}

Sent(c) ==
    CASE c.headers = "any" -> Headers
      [] c.headers = "user" -> UserHeaders
      [] c.headers = "issued" -> IssuedHeaders

Quiet == \A r \in Req : Free(r)

Admit(c) == c.concurrent \/ Quiet

RegisterRoute(c) ==
    \/ \E r \in c.slots, name \in c.names, email \in c.emails, password \in c.passwords :
           Admit(c) /\ Register(r, name, email, password)
    \/ \E r \in Req : RegisterFindOne(r)
    \/ \E r \in Req : RegisterHash(r)
    \/ \E r \in Req : RegisterCreate(r)

LoginRoute(c) ==
    \/ \E r \in c.slots, email \in c.emails, password \in c.passwords :
           Admit(c) /\ Login(r, email, password)
    \/ \E r \in Req : LoginFindOne(r)

UsersAllRoute(c) ==
    \/ \E r \in c.slots, header \in Sent(c), q \in c.queries :
           Admit(c) /\ UsersAll(r, header, q)
    \/ \E r \in Req : UserFind(r)

ConnectionsRoute(c) ==
    \/ \E r \in c.slots, header \in Sent(c), id \in c.ids :
           Admit(c) /\ ConnectionsRequest(r, header, id)
    \/ \E r \in Req : ConnectionRequestFindOne(r)
    \/ \E r \in Req : ConnectionRequestCreate(r)

JobsRoutes(c) ==
    \/ \E r \in c.slots, header \in Sent(c) : Admit(c) /\ JobsAll(r, header)
    \/ \E r \in Req : JobFind(r)
    \/ \E r \in c.slots, header \in Sent(c), id \in JobIds :
           Admit(c) /\ JobsById(r, header, id)
    \/ \E r \in Req : JobFindById(r)
    \/ \E r \in c.slots, header \in Sent(c), id \in JobIds :
           Admit(c) /\ JobsApply(r, header, id)
    \/ \E r \in Req : JobFindByIdAndUpdate(r)

Middleware == \E r \in Req : AuthThen(r)

AnyPassword == Passwords \cup {Undefined}

AnyClients ==
    [slots |-> Req, concurrent |-> TRUE, names |-> Names, emails |-> Emails,
     passwords |-> AnyPassword, headers |-> "any", queries |-> Queries,
     ids |-> UserIds]

Next ==
    \/ RegisterRoute(AnyClients)
    \/ LoginRoute(AnyClients)
    \/ UsersAllRoute(AnyClients)
    \/ ConnectionsRoute(AnyClients)
    \/ JobsRoutes(AnyClients)
    \/ Middleware

Spec == Init /\ [][Next]_vars

\* Registration and login.
NextAccounts ==
    \/ RegisterRoute(AnyClients)
    \/ LoginRoute(AnyClients)

SpecAccounts == Init /\ [][NextAccounts]_vars

\* The protected routes behind the auth middleware: one user, any header.
GateClients ==
    [AnyClients EXCEPT !.slots = 1..MaxGateReq, !.names = {<<"a", "b">>},
                       !.emails = {"alice@x.com"}, !.passwords = {"pw1"},
                       !.queries = {<<>>}, !.ids = {1}]

NextGate ==
    \/ RegisterRoute(GateClients)
    \/ UsersAllRoute(GateClients)
    \/ ConnectionsRoute(GateClients)
    \/ JobsRoutes(GateClients)
    \/ Middleware

SpecGate == Init /\ [][NextGate]_vars

\* A promise that resolves has its then-callback run.
FairSpecGate == SpecGate /\ \A r \in Req : WF_vars(AuthThen(r))

\* Registration alone.
Registrants ==
    [AnyClients EXCEPT !.names = {<<"a", "b">>}, !.passwords = {"pw1"}]

NextRegistration == RegisterRoute(Registrants)

SpecRegistration == Init /\ [][NextRegistration]_vars

\* Connection requests of registered users.
Members == [Registrants EXCEPT !.headers = "user"]

NextConnections ==
    \/ RegisterRoute(Members)
    \/ ConnectionsRoute(Members)
    \/ Middleware

SpecConnections == Init /\ [][NextConnections]_vars

\* The same, the requests handled one after another: a request arrives only
\* when no handler is in flight.
PatientMembers == [Members EXCEPT !.concurrent = FALSE]

NextSeqConnections ==
    \/ RegisterRoute(PatientMembers)
    \/ ConnectionsRoute(PatientMembers)
    \/ Middleware

SpecSeqConnections == Init /\ [][NextSeqConnections]_vars

\* User search.
Searchers == [AnyClients EXCEPT !.passwords = {"pw1"}, !.headers = "user"]

NextUsers ==
    \/ RegisterRoute(Searchers)
    \/ UsersAllRoute(Searchers)
    \/ Middleware

SpecUsers == Init /\ [][NextUsers]_vars

\* Sessions: a client presents the token a registration or a login gave it.
TokenHolders == [Registrants EXCEPT !.headers = "issued", !.queries = {<<>>}]

NextSession ==
    \/ RegisterRoute(TokenHolders)
    \/ LoginRoute(TokenHolders)
    \/ UsersAllRoute(TokenHolders)
    \/ Middleware

SpecSession == Init /\ [][NextSession]_vars

(***************************************************************************)
(* Properties.                                                             *)
(***************************************************************************)
ProtectedRoutes ==
    {"users/all", "connections/request", "jobs/all", "jobs/:id", "jobs/apply"}

Protected(r) == req[r].route \in ProtectedRoutes

authorization(r) == req[r].headers.authorization

\* The headers that carry a token this process signed, and the id in it.
ProcessSigned == [i \in 1..DeletedUserId |-> Bearer(<<sign([id |-> i], JWT_SECRET)>>)]

Signed(r) == \E i \in DOMAIN ProcessSigned : authorization(r) = ProcessSigned[i]

IdIn(r) == CHOOSE i \in DOMAIN ProcessSigned : authorization(r) = ProcessSigned[i]

Stored(id) == \E i \in 1..Len(User) : User[i]._id = id

\* C1: a request to a protected route that carries no Authorization header
\* is answered 401 {message: "No token"}, its route body is never run (next
\* is not invoked, no handler is suspended for it), and the step that takes
\* it leaves User, ConnectionRequest and Job as they were.
C1_NoHeaderIsRejected ==
    [][\A r \in Req :
          (Protected(r) /\ authorization(r) = NoHeader)' =>
              /\ pc'[r] = "done"
              /\ res'[r] = json(401, message("No token"))
              /\ nextCalls'[r] = 0
              /\ reqUser'[r] = Null
              /\ <<pc[r], req[r], res[r]>> # <<pc'[r], req'[r], res'[r]>>
                     => UNCHANGED <<User, ConnectionRequest, Job>>]_vars

C1_Witness ==
    \E r \in Req :
        /\ Protected(r) /\ authorization(r) = NoHeader
        /\ res[r].status = 401
        /\ User # <<>> /\ ConnectionRequest # <<>>

\* C2: a request whose Authorization header carries no token signed with the
\* process secret (another secret, a malformed token, nothing after the
\* scheme word) is answered 401 {message: "Invalid token"}, next is never
\* invoked for it, and no exception leaves the middleware.
C2_BadTokenIsRejected ==
    \A r \in Req :
        (Protected(r) /\ authorization(r) # NoHeader /\ ~Signed(r)) =>
            /\ pc[r] = "done"
            /\ res[r] = json(401, message("Invalid token"))
            /\ nextCalls[r] = 0

C2_Witness ==
    \E r \in Req :
        /\ Protected(r)
        /\ authorization(r) = Bearer(<<sign([id |-> 1], OtherSecret)>>)
        /\ res[r].status = 401
        /\ Stored(1)

\* C3: for a request whose token verifies, next is invoked exactly once, not
\* before the lookup has completed, with req.user the user of the token's id
\* without its password (null when no user has that id), no 401 is sent, and
\* the lookup's callback does run.
C3_Principal(r) ==
    IF Stored(IdIn(r))
    THEN /\ reqUser[r] # Null
         /\ reqUser[r]._id = IdIn(r)
         /\ \E i \in 1..Len(User) :
                /\ User[i]._id = reqUser[r]._id
                /\ User[i].name = reqUser[r].name
                /\ User[i].email = reqUser[r].email
    ELSE reqUser[r] = Null

C3_Safe(r) ==
    (Protected(r) /\ Signed(r)) =>
        /\ res[r].status # 401
        /\ pc[r] = "auth.findById" => nextCalls[r] = 0
        /\ pc[r] # "auth.findById" => nextCalls[r] = 1 /\ C3_Principal(r)

C3_NextOnceAfterLookup ==
    /\ [](\A r \in Req : C3_Safe(r))
    /\ \A r \in Req :
           (Protected(r) /\ Signed(r) /\ pc[r] = "auth.findById")
               ~> (Protected(r) /\ Signed(r) /\ nextCalls[r] = 1)

C3_Witness ==
    \E r \in Req :
        /\ Protected(r) /\ Signed(r) /\ Stored(IdIn(r))
        /\ nextCalls[r] = 1 /\ reqUser[r] # Null
        /\ res[r].status = 200

Connection(r) == req[r].route = "connections/request"

Pair(docs, sender, receiver) ==
    {i \in 1..Len(docs) : docs[i].sender = sender /\ docs[i].receiver = receiver}

\* C4: with the connection requests handled one after another, the request
\* of sender for receiver is answered 400 {message: "Already sent"} and
\* stores nothing exactly when a ConnectionRequest of that ordered pair is
\* stored; otherwise it stores one new ConnectionRequest of that pair with
\* status "pending" and answers with it.
C4_Answered(r) ==
    LET sender == reqUser[r]._id
        receiver == req[r].params.id
    IN  IF Pair(ConnectionRequest, sender, receiver) # {}
        THEN /\ res'[r] = json(400, message("Already sent"))
             /\ ConnectionRequest' = ConnectionRequest
        ELSE /\ Len(ConnectionRequest') = Len(ConnectionRequest) + 1
             /\ SubSeq(ConnectionRequest', 1, Len(ConnectionRequest)) = ConnectionRequest
             /\ LET reqObj == ConnectionRequest'[Len(ConnectionRequest')]
                IN  /\ reqObj.sender = sender
                    /\ reqObj.receiver = receiver
                    /\ reqObj.status = "pending"
                    /\ res'[r] = json(200, reqObj)
             /\ Cardinality(Pair(ConnectionRequest', sender, receiver)) = 1

C4_DuplicateIffPairStored ==
    [][\A r \in Req :
          (Connection(r) /\ ~Free(r) /\ pc[r] # "auth.findById" /\ pc'[r] = "done")
              => C4_Answered(r)]_vars

C4_Witness ==
    /\ \E r \in Req :
           /\ Connection(r) /\ pc[r] = "done"
           /\ res[r] = json(400, message("Already sent"))
    /\ \E i, j \in 1..Len(ConnectionRequest) :
           /\ ConnectionRequest[i].sender # ConnectionRequest[i].receiver
           /\ ConnectionRequest[j].sender = ConnectionRequest[i].receiver
           /\ ConnectionRequest[j].receiver = ConnectionRequest[i].sender

\* C5: under any interleaving of the connection-request handlers, the store
\* holds at most one ConnectionRequest for each ordered (sender, receiver).
C5_OnePerOrderedPair ==
    \A i, j \in 1..Len(ConnectionRequest) :
        (/\ ConnectionRequest[i].sender = ConnectionRequest[j].sender
         /\ ConnectionRequest[i].receiver = ConnectionRequest[j].receiver) => i = j

EmailStored(email) == \E i \in 1..Len(User) : User[i].email = email

\* C6: a registration refused because its email belongs to a stored user is
\* answered 400 and stores no user; 500 answers only a failure other than a
\* duplicate email (here: bcrypt.hash given no password).
C6_DuplicateEmailIsConflict ==
    [][\A r \in Req :
          (req[r].route = "register" /\ ~Free(r) /\ pc'[r] = "done") =>
              /\ (pc[r] # "bcrypt.hash" /\ EmailStored(req[r].body.email)) =>
                     /\ res'[r].status = 400
                     /\ User' = User
              /\ res'[r].status = 500 => req[r].body.password = Undefined]_vars

\* C7: under any interleaving of registrations, no two stored users have the
\* same email.
C7_UniqueEmail ==
    \A i, j \in 1..Len(User) : User[i].email = User[j].email => i = j

\* Two registrations of one new email were in flight together: both passed
\* findOne, one insert was stored.
C7_Witness ==
    \E r1, r2 \in Req :
        /\ r1 # r2
        /\ req[r1].route = "register" /\ req[r2].route = "register"
        /\ req[r1].body.email = req[r2].body.email
        /\ pc[r1] = "done" /\ res[r1].status = 200
        /\ pc[r2] = "User.create"

\* C8: two failed logins, one with an email no user has and one with a known
\* email and a wrong password, get the same status and body.
FailedLogin(r) == req[r].route = "login" /\ pc[r] = "done" /\ res[r].status # 200

C8_FailedLoginsAlike ==
    \A r1, r2 \in Req : (FailedLogin(r1) /\ FailedLogin(r2)) => res[r1] = res[r2]

\* C9: the token a registration or a login answers with, presented as
\* "Bearer <token>", verifies, and req.user is the user that was created or
\* logged in: the user of the request's email.
C9_RoundTrip ==
    \A r1, r2 \in Req :
        (/\ TokenResponse(r1)
         /\ Protected(r2)
         /\ authorization(r2) = Bearer(<<res[r1].body.token>>)) =>
            /\ res[r1].body.user.email = req[r1].body.email
            /\ res[r2].status # 401
            /\ pc[r2] # "auth.findById" =>
                   /\ nextCalls[r2] = 1
                   /\ reqUser[r2] # Null
                   /\ reqUser[r2]._id = res[r1].body.user._id
                   /\ reqUser[r2].email = req[r1].body.email

C9_Witness ==
    \E r1, r2 \in Req :
        /\ TokenResponse(r1) /\ req[r1].route = "login"
        /\ req[r1].body.email = "bob@x.com" /\ Len(User) = 2
        /\ Protected(r2)
        /\ authorization(r2) = Bearer(<<res[r1].body.token>>)
        /\ pc[r2] = "done" /\ res[r2].status = 200

\* C10: every user an authenticated GET /api/users/all?q= returns has no
\* password field, and the array holds exactly the stored users whose name
\* contains q, letter case ignored.
Contains(name, q) ==
    \E off \in 0..(Len(name) - Len(q)) :
        \A i \in 1..Len(q) : Lower(q[i]) = Lower(name[off + i])

C10_SearchResult ==
    [][\A r \in Req :
          (pc[r] = "User.find" /\ pc'[r] = "done") =>
              LET body == res'[r].body
              IN  /\ \A i \in 1..Len(body) : "password" \notin DOMAIN body[i]
                  /\ {body[i]._id : i \in 1..Len(body)} =
                         {u._id : u \in {x \in Range(User) :
                                            Contains(x.name, req[r].query.q)}}]_vars

====
